---- MODULE Spec2Model ----
(***************************************************************************)
(* Model of the pronunciation-assessment scripts                           *)
(*   src/python/advanced_evaluation.py  (single-recording heuristic mode)  *)
(*   src/python/evaluate_dtw.py         (dual-recording alignment mode)    *)
(*                                                                         *)
(* Numbers.  Python floats that carry scores, energies and ratios are      *)
(* modelled in fixed point with Unit parts per 1.0; Unit is a multiple of  *)
(* 3, 15 and 1000 so that every literal of the source (0.05, 0.3, 1/3.0,   *)
(* count/15 ...) is exact.  Frequencies (Hz), tempo (BPM), spectral bin    *)
(* indices, onset times (ms) and the final 0..100 score are plain          *)
(* integers.  The librosa / scipy / numpy primitives are not part of the   *)
(* repository: a waveform is represented by what they return on it.        *)
(***************************************************************************)
EXTENDS Integers, Sequences, FiniteSets

VARIABLES
    pc,                 \* position of the running invocation
    load_ok,            \* librosa.load succeeds on the input path(s)
    wave,               \* single mode: the loaded waveform (see WaveSet)
    energy,             \* advanced_evaluation.py:20
    formants,           \* advanced_evaluation.py:24/27
    pitch_contour,      \* advanced_evaluation.py:30/33
    rhythm_features,    \* advanced_evaluation.py:36/39
    phoneme_boundaries, \* advanced_evaluation.py:42/45
    katakana_score,     \* advanced_evaluation.py:48/51
    result,             \* value returned by analyze_pronunciation (single)
    audio,              \* dual mode: the two loaded waveforms (see AudioSet)
    mfcc_user_t,        \* evaluate_dtw.py:22
    mfcc_ref_t,         \* evaluate_dtw.py:23
    dtw_distance,       \* evaluate_dtw.py:29
    dtw_result,         \* value returned by analyze_pronunciation (dual)
    call,               \* arguments of a direct call of calculate_overall_score
    ret                 \* its return value

vars == <<pc, load_ok, wave, audio, energy, formants, pitch_contour, rhythm_features,
          phoneme_boundaries, katakana_score, result, mfcc_user_t, mfcc_ref_t,
          dtw_distance, dtw_result, call, ret>>

-----------------------------------------------------------------------------
(* Fixed-point arithmetic                                                  *)

Unit == 3 * 1000

\* the decimal literal n/d of the source, in Units
Dec(n, d) == (n * Unit) \div d

Min(a, b) == IF a <= b THEN a ELSE b

Max(a, b) == IF a >= b THEN a ELSE b

RECURSIVE Sum(_)
Sum(s) == IF s = <<>> THEN 0 ELSE Head(s) + Sum(Tail(s))

RECURSIVE SumSq(_)
SumSq(s) == IF s = <<>> THEN 0 ELSE Head(s) * Head(s) + SumSq(Tail(s))

\* floor of the square root, by bisection on lo..hi
RECURSIVE SqrtIn(_, _, _)
SqrtIn(n, lo, hi) ==
    IF lo >= hi THEN lo
    ELSE LET mid == (lo + hi + 1) \div 2
         IN  IF mid * mid <= n THEN SqrtIn(n, mid, hi) ELSE SqrtIn(n, lo, mid - 1)

ISqrt(n) == SqrtIn(n, 0, Min(n, 46340))

\* np.mean, np.std (population), np.diff, max - min of a non-empty array
Mean(s) == Sum(s) \div Len(s)

Std(s) == ISqrt(Len(s) * SumSq(s) - Sum(s) * Sum(s)) \div Len(s)

Diff(s) == [i \in 1..(Len(s) - 1) |-> s[i + 1] - s[i]]

RECURSIVE MaxOf(_)
MaxOf(s) == IF Len(s) = 1 THEN s[1] ELSE Max(Head(s), MaxOf(Tail(s)))

RECURSIVE MinOf(_)
MinOf(s) == IF Len(s) = 1 THEN s[1] ELSE Min(Head(s), MinOf(Tail(s)))

\* dict.get(key, default)
Get(d, key, default) == IF key \in DOMAIN d THEN d[key] ELSE default

\* a call either raises or returns a value
Raise == [raised |-> TRUE, value |-> <<>>]

Return(v) == [raised |-> FALSE, value |-> v]

-----------------------------------------------------------------------------
(* Sub-score rules, advanced_evaluation.py:323-402                         *)

english_vowel_ranges ==
    << <<200, 900, 1500, 3500>>, <<300, 1000, 1600, 3200>>,
       <<400, 1100, 1400, 3000>>, <<500, 1300, 1200, 2800>>,
       <<600, 1200, 1000, 2600>>, <<300, 900, 1100, 2400>>,
       <<200, 800, 900, 2200>>,   <<300, 900, 1000, 2400>> >>

\* The loop unpacks each row into four integers f1_range, f2_range,
\* f3_range, _ and its first statement evaluates f1_range[0]: subscripting
\* an int raises TypeError, so the call raises as soon as the table has a
\* row, whatever f1, f2 and f3 are.  (With no row best_score stays 0 and
\* min(best_score, 1.0) is returned.)
calculate_formant_score(f1, f2, f3) ==
    IF Len(english_vowel_ranges) > 0 THEN Raise ELSE Return(Min(0, Unit))

calculate_pitch_score(mean_pitch, pitch_std, smoothness) ==
    LET band == IF 80 <= mean_pitch /\ mean_pitch <= 600 THEN Dec(5, 10)
                ELSE IF 60 <= mean_pitch /\ mean_pitch <= 700 THEN Dec(3, 10)
                ELSE 0
        spread == IF 10 <= pitch_std /\ pitch_std <= 200 THEN Dec(3, 10)
                  ELSE IF 5 <= pitch_std /\ pitch_std <= 300 THEN Dec(2, 10)
                  ELSE 0
    IN  Min(band + spread + (smoothness * 2) \div 10, Unit)

calculate_rhythm_score(tempo, consistency, stress_pattern) ==
    LET tempo_score == IF 40 <= tempo /\ tempo <= 200 THEN Dec(5, 10)
                       ELSE IF 30 <= tempo /\ tempo <= 250 THEN Dec(3, 10)
                       ELSE 0
        rhythm_score == (consistency * 3) \div 10
        stress_score == IF stress_pattern = "natural" THEN Dec(2, 10) ELSE Dec(1, 10)
    IN  Min(tempo_score + rhythm_score + stress_score, Unit)

calculate_boundary_score_unclamped(quality, count) ==
    IF count > 0 THEN (quality * 6) \div 10 + (count * Unit * 4) \div (15 * 10)
    ELSE Dec(5, 10)

calculate_boundary_score(quality, count) ==
    IF count > 0
    THEN Min((quality * 6) \div 10 + (count * Unit * 4) \div (15 * 10), Unit)
    ELSE Dec(5, 10)

calculate_pitch_smoothness(pitches) ==
    IF Len(pitches) < 2 THEN 0 ELSE Unit \div (1 + Std(Diff(pitches)))

-----------------------------------------------------------------------------
(* Analyzers, advanced_evaluation.py:81-264.  Argument w is the waveform.  *)

\* the summary returned at lines 121-127
FormantDefault ==
    [f1_mean |-> 0, f2_mean |-> 0, f3_mean |-> 0, formant_stability |-> 0,
     score |-> Dec(6, 10)]

\* column c of the list of per-frame peak pairs; all its entries
Column(ff, c) == [i \in 1..Len(ff) |-> ff[i][c]]

RECURSIVE Flatten(_)
Flatten(ff) == IF ff = <<>> THEN <<>> ELSE Head(ff) \o Flatten(Tail(ff))

\* The whole body is inside try/except Exception: an exception of stft or
\* of calculate_formant_score is printed and falls through to line 121.
extract_formants(w) ==
    IF w.formant.stft_raises THEN Return(FormantDefault)
    ELSE LET formant_freqs == w.formant.formant_freqs
         IN  IF formant_freqs # <<>> /\ Len(formant_freqs[1]) >= 2
             THEN LET f1_mean == Mean(Column(formant_freqs, 1))
                      f2_mean == Mean(Column(formant_freqs, 2))
                      s == calculate_formant_score(f1_mean, f2_mean, 0)
                  IN  IF s.raised THEN Return(FormantDefault)
                      ELSE Return([f1_mean |-> f1_mean, f2_mean |-> f2_mean,
                                   f3_mean |-> 0,
                                   formant_stability |-> Std(Flatten(formant_freqs)),
                                   score |-> s.value])
             ELSE Return(FormantDefault)

PitchZero ==
    [mean_pitch |-> 0, pitch_std |-> 0, pitch_range |-> 0, pitch_smoothness |-> 0,
     score |-> 0]

IsPositive(p) == p > 0

extract_pitch_contour(w) ==
    IF w.pitch.raises THEN Raise
    ELSE LET valid_pitches == SelectSeq(w.pitch.frame_pitches, IsPositive)
         IN  IF valid_pitches # <<>>
             THEN LET pitch_mean == Mean(valid_pitches)
                      pitch_std == Std(valid_pitches)
                      pitch_range == MaxOf(valid_pitches) - MinOf(valid_pitches)
                      pitch_smoothness == calculate_pitch_smoothness(valid_pitches)
                  IN  Return([mean_pitch |-> pitch_mean, pitch_std |-> pitch_std,
                              pitch_range |-> pitch_range,
                              pitch_smoothness |-> pitch_smoothness,
                              score |-> calculate_pitch_score(pitch_mean, pitch_std,
                                                              pitch_smoothness)])
             ELSE Return(PitchZero)

analyze_stress_pattern(w) == IF w.rhythm.energy_peaks > 0 THEN "natural" ELSE "flat"

\* onset_times are in ms, so 1.0 / (1.0 + std) is 1000 / (1000 + std_ms)
analyze_rhythm(w) ==
    IF w.rhythm.raises THEN Raise
    ELSE LET onset_times == w.rhythm.onset_times
             rhythm_consistency ==
                 IF Len(onset_times) > 1
                 THEN (Unit * 1000) \div (1000 + Std(Diff(onset_times)))
                 ELSE 0
             stress_pattern == analyze_stress_pattern(w)
         IN  Return([tempo |-> w.rhythm.tempo, beat_count |-> w.rhythm.beat_count,
                     onset_count |-> Len(onset_times),
                     rhythm_consistency |-> rhythm_consistency,
                     stress_pattern |-> stress_pattern,
                     score |-> calculate_rhythm_score(w.rhythm.tempo,
                                                      rhythm_consistency,
                                                      stress_pattern)])

\* change_points is represented by its length, the number of its entries
\* above mean + std, and its mean
detect_phoneme_boundaries(w) ==
    IF w.phoneme.raises THEN Raise
    ELSE LET n_boundaries == w.phoneme.n_boundaries
             boundary_quality ==
                 IF w.phoneme.n_change_points > 0
                 THEN (Unit * n_boundaries) \div w.phoneme.n_change_points
                 ELSE 0
         IN  Return([boundary_count |-> n_boundaries,
                     boundary_quality |-> boundary_quality,
                     change_intensity |-> w.phoneme.change_intensity,
                     score |-> calculate_boundary_score(boundary_quality,
                                                        n_boundaries)])

\* the detector with the flag raised above 0.3 instead of 0.5
KatakanaResultLowThreshold(katakana_indicators) ==
    LET katakana_score_ == (Len(katakana_indicators) * Unit) \div 3
    IN  [detected |-> katakana_score_ > Dec(3, 10),
         confidence |-> katakana_score_,
         indicators |-> katakana_indicators,
         score |-> Unit - katakana_score_]

\* the detector with rule weights 0.3 / 0.3 / 0.4 instead of 1/3 each
KatakanaResultWeighted(katakana_indicators) ==
    LET weight(tag) == IF tag = "unnatural_rhythm" THEN Dec(4, 10) ELSE Dec(3, 10)
        katakana_score_ ==
            Sum([i \in 1..Len(katakana_indicators) |-> weight(katakana_indicators[i])])
    IN  [detected |-> katakana_score_ > Dec(5, 10),
         confidence |-> katakana_score_,
         indicators |-> katakana_indicators,
         score |-> Unit - katakana_score_]

\* katakana_score and the returned dict, lines 256-264
KatakanaResult(katakana_indicators) ==
    LET katakana_score_ == (Len(katakana_indicators) * Unit) \div 3
    IN  [detected |-> katakana_score_ > Dec(5, 10),
         confidence |-> katakana_score_,
         indicators |-> katakana_indicators,
         score |-> Unit - katakana_score_]

\* The detector analyses the waveform again; an exception of one of the
\* three analyzers it calls is not caught here.
detect_katakana_pronunciation(w) ==
    LET formants_ == extract_formants(w)
        pitch_data == extract_pitch_contour(w)
        rhythm_data == analyze_rhythm(w)
    IN  IF formants_.raised \/ pitch_data.raised \/ rhythm_data.raised THEN Raise
        ELSE LET i1 == IF pitch_data.value.pitch_range < 50
                       THEN <<"monotone_pitch">> ELSE <<>>
                 i2 == IF formants_.value.formant_stability > 100
                       THEN <<"unstable_formants">> ELSE <<>>
                 i3 == IF rhythm_data.value.rhythm_consistency < Dec(3, 10)
                       THEN <<"unnatural_rhythm">> ELSE <<>>
             IN  Return(KatakanaResult(i1 \o i2 \o i3))

-----------------------------------------------------------------------------
(* Scoring and feedback, advanced_evaluation.py:266-321 and 417-441        *)

Clip(x, lo, hi) == IF x < lo THEN lo ELSE IF x > hi THEN hi ELSE x

base_score == 75

PitchAdjustment(pitch) ==
    LET pitch_score == Get(pitch, "score", 0)
    IN  IF pitch_score > Dec(7, 10) THEN 10
        ELSE IF pitch_score > Dec(5, 10) THEN 5 ELSE -5

RhythmAdjustment(rhythm) ==
    LET rhythm_score == Get(rhythm, "score", 0)
    IN  IF rhythm_score > Dec(8, 10) THEN 10
        ELSE IF rhythm_score > Dec(6, 10) THEN 5 ELSE -5

PhonemeAdjustment(phoneme) ==
    IF Get(phoneme, "score", 0) > Dec(5, 10) THEN 5 ELSE -3

KatakanaAdjustment(katakana) ==
    IF Get(katakana, "detected", FALSE) THEN -20 ELSE 10

EnergyAdjustment(e) ==
    IF e > Dec(1, 10) THEN 5 ELSE IF e > Dec(5, 100) THEN 0 ELSE -5

final_score(pitch, rhythm, phoneme, katakana, e) ==
    base_score + PitchAdjustment(pitch) + RhythmAdjustment(rhythm)
        + PhonemeAdjustment(phoneme) + KatakanaAdjustment(katakana)
        + EnergyAdjustment(e)

calculate_overall_score_unclipped(formants_, pitch, rhythm, phoneme, katakana, e) ==
    final_score(pitch, rhythm, phoneme, katakana, e)

calculate_overall_score(formants_, pitch, rhythm, phoneme, katakana, e) ==
    Clip(final_score(pitch, rhythm, phoneme, katakana, e), 0, 100)

\* the five sentences (Japanese in the source), by what they say
MsgVowel == "pronounce the vowels more accurately"

MsgPitch == "make the intonation more natural"

MsgRhythm == "make the rhythm more natural"

MsgKatakana == "avoid katakana pronunciation, aim for native pronunciation"

MsgPraise == "excellent pronunciation"

\* the feedback with the articulation sentence appended first
generate_detailed_feedback_flag_first(formants_, pitch, rhythm, phoneme, katakana) ==
    LET feedback ==
            (IF katakana.detected THEN <<MsgKatakana>> ELSE <<>>)
            \o (IF pitch.score < Dec(5, 10) THEN <<MsgPitch>> ELSE <<>>)
            \o (IF rhythm.score < Dec(5, 10) THEN <<MsgRhythm>> ELSE <<>>)
            \o (IF formants_.score < Dec(5, 10) THEN <<MsgVowel>> ELSE <<>>)
    IN  IF feedback = <<>> THEN <<MsgPraise>> ELSE feedback

generate_detailed_feedback(formants_, pitch, rhythm, phoneme, katakana) ==
    LET feedback ==
            (IF formants_.score < Dec(5, 10) THEN <<MsgVowel>> ELSE <<>>)
            \o (IF pitch.score < Dec(5, 10) THEN <<MsgPitch>> ELSE <<>>)
            \o (IF rhythm.score < Dec(5, 10) THEN <<MsgRhythm>> ELSE <<>>)
            \o (IF katakana.detected THEN <<MsgKatakana>> ELSE <<>>)
    IN  IF feedback = <<>> THEN <<MsgPraise>> ELSE feedback

-----------------------------------------------------------------------------
(* Inputs of the single-recording mode: what the signal-processing         *)
(* primitives return on the waveform.                                      *)

sr == 16000

\* len(y) and np.mean(librosa.feature.rms(y=y))
ClipCases ==
    { [n_samples |-> 32000, rms_mean |-> Dec(1, 100)],
      [n_samples |-> 24000, rms_mean |-> Dec(8, 100)],
      [n_samples |-> 48000, rms_mean |-> Dec(2, 10)] }

\* librosa.stft raising, else the per-frame pairs of lowest spectral peaks
\* (bin indices) of the frames that have at least two peaks
FormantCases ==
    { [stft_raises |-> TRUE,  formant_freqs |-> <<>>],
      [stft_raises |-> FALSE, formant_freqs |-> <<>>],
      [stft_raises |-> FALSE, formant_freqs |-> << <<10, 40>> >>],
      [stft_raises |-> FALSE, formant_freqs |-> << <<10, 40>>, <<20, 400>> >>] }

\* librosa.piptrack raising, else the pitch at the strongest bin of each frame
PitchCases ==
    { [raises |-> TRUE,  frame_pitches |-> <<>>] }
    \cup { [raises |-> FALSE, frame_pitches |-> fp] :
             fp \in { <<0, 0>>, <<0, 150>>, <<100, 0, 120>>, <<100, 300>>,
                      <<60, 80>>, <<700, 900>>, <<800, 1600>>,
                      <<100, 100, 300, 300>> } }

\* beat_track / onset_detect / rms raising, else tempo, number of beats,
\* onset times (ms) and number of rms peaks above 1.2 * mean
RhythmCases ==
    { [raises |-> TRUE, tempo |-> 0, beat_count |-> 0, onset_times |-> <<>>,
       energy_peaks |-> 0],
      [raises |-> FALSE, tempo |-> 0, beat_count |-> 0, onset_times |-> <<>>,
       energy_peaks |-> 0],
      [raises |-> FALSE, tempo |-> 120, beat_count |-> 4, onset_times |-> <<>>,
       energy_peaks |-> 0],
      [raises |-> FALSE, tempo |-> 120, beat_count |-> 4,
       onset_times |-> <<0, 500, 1000>>, energy_peaks |-> 2],
      [raises |-> FALSE, tempo |-> 120, beat_count |-> 4,
       onset_times |-> <<0, 500, 1000>>, energy_peaks |-> 0],
      [raises |-> FALSE, tempo |-> 35, beat_count |-> 1,
       onset_times |-> <<0, 1000, 8000>>, energy_peaks |-> 1],
      [raises |-> FALSE, tempo |-> 300, beat_count |-> 9,
       onset_times |-> <<0, 1000, 8000>>, energy_peaks |-> 1] }

\* librosa.feature.mfcc raising, else len(change_points), the number of its
\* entries above mean + std, and its mean
PhonemeCases ==
    { [raises |-> TRUE,  n_change_points |-> 0,   n_boundaries |-> 0,  change_intensity |-> 0],
      [raises |-> FALSE, n_change_points |-> 60,  n_boundaries |-> 0,  change_intensity |-> 0],
      [raises |-> FALSE, n_change_points |-> 60,  n_boundaries |-> 6,  change_intensity |-> 40],
      [raises |-> FALSE, n_change_points |-> 100, n_boundaries |-> 15, change_intensity |-> 40],
      [raises |-> FALSE, n_change_points |-> 100, n_boundaries |-> 20, change_intensity |-> 55],
      [raises |-> FALSE, n_change_points |-> 300, n_boundaries |-> 45, change_intensity |-> 70] }

WaveSet ==
    [clip : ClipCases, formant : FormantCases, pitch : PitchCases,
     rhythm : RhythmCases, phoneme : PhonemeCases]

NoWave ==
    [clip    |-> [n_samples |-> 0, rms_mean |-> 0],
     formant |-> [stft_raises |-> TRUE, formant_freqs |-> <<>>],
     pitch   |-> [raises |-> TRUE, frame_pitches |-> <<>>],
     rhythm  |-> [raises |-> TRUE, tempo |-> 0, beat_count |-> 0,
                  onset_times |-> <<>>, energy_peaks |-> 0],
     phoneme |-> [raises |-> TRUE, n_change_points |-> 0, n_boundaries |-> 0,
                  change_intensity |-> 0]]

-----------------------------------------------------------------------------
(* analyze_pronunciation, advanced_evaluation.py:10-79                     *)

\* the substitutes of the five inner except clauses
FormantFallback ==
    [f1_mean |-> 0, f2_mean |-> 0, f3_mean |-> 0, formant_stability |-> 0, score |-> 0]

PitchFallback ==
    [mean_pitch |-> 0, pitch_std |-> 0, pitch_range |-> 0, pitch_smoothness |-> 0,
     score |-> 0]

RhythmFallback ==
    [tempo |-> 0, beat_count |-> 0, onset_count |-> 0, rhythm_consistency |-> 0,
     stress_pattern |-> "flat", score |-> 0]

PhonemeFallback ==
    [boundary_count |-> 0, boundary_quality |-> 0, change_intensity |-> 0, score |-> 0]

KatakanaFallback ==
    [detected |-> FALSE, confidence |-> 0, indicators |-> <<>>, score |-> 0]

\* try: x = analyzer(y, sr)  except Exception: x = fallback
Catch(r, fallback) == IF r.raised THEN Return(fallback) ELSE r

TryFormants(w) == Catch(extract_formants(w), FormantFallback)

TryPitchUncaught(w) == extract_pitch_contour(w)

TryPitch(w) == Catch(extract_pitch_contour(w), PitchFallback)

TryRhythm(w) == Catch(analyze_rhythm(w), RhythmFallback)

TryPhoneme(w) == Catch(detect_phoneme_boundaries(w), PhonemeFallback)

TryKatakana(w) == Catch(detect_katakana_pronunciation(w), KatakanaFallback)

None == [none |-> TRUE]

\* the outer except clause, lines 75-79
Failure(msg) == [success |-> FALSE, error |-> msg]

Assessment ==
    [success |-> TRUE,
     overallScore |-> calculate_overall_score(formants, pitch_contour,
                          rhythm_features, phoneme_boundaries, katakana_score, energy),
     formantAnalysis |-> formants,
     pitchAnalysis |-> pitch_contour,
     rhythmAnalysis |-> rhythm_features,
     phonemeAnalysis |-> phoneme_boundaries,
     katakanaDetection |-> katakana_score,
     energyLevel |-> energy,
     duration |-> (wave.clip.n_samples * 1000) \div sr,
     detailedFeedback |-> generate_detailed_feedback(formants, pitch_contour,
                              rhythm_features, phoneme_boundaries, katakana_score)]

dtwVars == <<audio, mfcc_user_t, mfcc_ref_t, dtw_distance, dtw_result>>

callVars == <<call, ret>>

locals == <<energy, formants, pitch_contour, rhythm_features, phoneme_boundaries,
            katakana_score>>

\* an exception that reaches the outer try ends the invocation
Abort(msg) ==
    /\ pc' = "done"
    /\ result' = Failure(msg)

\* lines 16-20
Load ==
    /\ pc = "load"
    /\ IF load_ok
       THEN /\ energy' = wave.clip.rms_mean
            /\ pc' = "formants"
            /\ UNCHANGED result
       ELSE /\ Abort("load")
            /\ UNCHANGED energy
    /\ UNCHANGED <<load_ok, wave, formants, pitch_contour, rhythm_features,
                   phoneme_boundaries, katakana_score, dtwVars, callVars>>

\* lines 23-27
FormantStep ==
    /\ pc = "formants"
    /\ LET r == TryFormants(wave)
       IN  IF r.raised
           THEN Abort("formants") /\ UNCHANGED formants
           ELSE formants' = r.value /\ pc' = "pitch" /\ UNCHANGED result
    /\ UNCHANGED <<load_ok, wave, energy, pitch_contour, rhythm_features,
                   phoneme_boundaries, katakana_score, dtwVars, callVars>>

\* lines 29-33
PitchStep ==
    /\ pc = "pitch"
    /\ LET r == TryPitch(wave)
       IN  IF r.raised
           THEN Abort("pitch") /\ UNCHANGED pitch_contour
           ELSE pitch_contour' = r.value /\ pc' = "rhythm" /\ UNCHANGED result
    /\ UNCHANGED <<load_ok, wave, energy, formants, rhythm_features,
                   phoneme_boundaries, katakana_score, dtwVars, callVars>>

\* lines 35-39
RhythmStep ==
    /\ pc = "rhythm"
    /\ LET r == TryRhythm(wave)
       IN  IF r.raised
           THEN Abort("rhythm") /\ UNCHANGED rhythm_features
           ELSE rhythm_features' = r.value /\ pc' = "phoneme" /\ UNCHANGED result
    /\ UNCHANGED <<load_ok, wave, energy, formants, pitch_contour,
                   phoneme_boundaries, katakana_score, dtwVars, callVars>>

\* lines 41-45
PhonemeStep ==
    /\ pc = "phoneme"
    /\ LET r == TryPhoneme(wave)
       IN  IF r.raised
           THEN Abort("phoneme") /\ UNCHANGED phoneme_boundaries
           ELSE phoneme_boundaries' = r.value /\ pc' = "katakana" /\ UNCHANGED result
    /\ UNCHANGED <<load_ok, wave, energy, formants, pitch_contour,
                   rhythm_features, katakana_score, dtwVars, callVars>>

\* lines 47-51
KatakanaStep ==
    /\ pc = "katakana"
    /\ LET r == TryKatakana(wave)
       IN  IF r.raised
           THEN Abort("katakana") /\ UNCHANGED katakana_score
           ELSE katakana_score' = r.value /\ pc' = "score" /\ UNCHANGED result
    /\ UNCHANGED <<load_ok, wave, energy, formants, pitch_contour,
                   rhythm_features, phoneme_boundaries, dtwVars, callVars>>

\* lines 53-73
ScoreStep ==
    /\ pc = "score"
    /\ result' = Assessment
    /\ pc' = "done"
    /\ UNCHANGED <<load_ok, wave, locals, dtwVars, callVars>>

Init ==
    /\ pc = "load"
    /\ load_ok \in BOOLEAN
    /\ wave \in (IF load_ok THEN WaveSet ELSE {NoWave})
    /\ energy = 0
    /\ formants = None
    /\ pitch_contour = None
    /\ rhythm_features = None
    /\ phoneme_boundaries = None
    /\ katakana_score = None
    /\ result = None
    /\ audio = None
    /\ mfcc_user_t = <<>>
    /\ mfcc_ref_t = <<>>
    /\ dtw_distance = 0
    /\ dtw_result = None
    /\ call = None
    /\ ret = 0

Next ==
    \/ Load
    \/ FormantStep
    \/ PitchStep
    \/ RhythmStep
    \/ PhonemeStep
    \/ KatakanaStep
    \/ ScoreStep

Spec == Init /\ [][Next]_vars

-----------------------------------------------------------------------------
(* Dual-recording alignment mode, evaluate_dtw.py                          *)

n_mfcc == 13

MaxFrames == 3

\* a cepstral vector whose first two coefficients are a and b
Vec(a, b) == [c \in 1..n_mfcc |-> IF c = 1 THEN a ELSE IF c = 2 THEN b ELSE 0]

\* frame vectors; their pairwise Euclidean distances are whole numbers
FrameVals == { Vec(0, 0), Vec(3000, 4000), Vec(6000, 8000) }

RECURSIVE SeqsUpTo(_, _)
SeqsUpTo(S, n) ==
    IF n = 0 THEN { <<>> }
    ELSE LET shorter == SeqsUpTo(S, n - 1)
         IN  shorter \cup { Append(q, x) : q \in { t \in shorter : Len(t) = n - 1 }, x \in S }

\* a waveform is represented by the cepstral vector of each of its frames
AudioSet == [user : SeqsUpTo(FrameVals, MaxFrames), ref : SeqsUpTo(FrameVals, MaxFrames)]

\* librosa.feature.mfcc: an n_mfcc x frames matrix
Mfcc(y) == [c \in 1..n_mfcc |-> [t \in 1..Len(y) |-> y[t][c]]]

\* ndarray.T
Transpose(m) == [t \in 1..Len(m[1]) |-> [c \in 1..Len(m) |-> m[c][t]]]

\* dtw(x, y) of the dtw package with its defaults: Euclidean local distance,
\* step pattern symmetric2, path from the first pair of frames to the last
RECURSIVE SqDist(_, _, _)
SqDist(a, b, c) ==
    IF c = 0 THEN 0 ELSE (a[c] - b[c]) * (a[c] - b[c]) + SqDist(a, b, c - 1)

LocalDist(a, b) == ISqrt(SqDist(a, b, Len(a)))

\* first row of the cumulative cost matrix, up to column j
RECURSIVE FirstRow(_, _, _)
FirstRow(x1, y, j) ==
    IF j = 1 THEN << LocalDist(x1, y[1]) >>
    ELSE LET left == FirstRow(x1, y, j - 1)
         IN  Append(left, left[j - 1] + LocalDist(x1, y[j]))

\* a later row from the row above it, up to column j
RECURSIVE NextRow(_, _, _, _)
NextRow(prev, xi, y, j) ==
    IF j = 1 THEN << prev[1] + LocalDist(xi, y[1]) >>
    ELSE LET left == NextRow(prev, xi, y, j - 1)
             d == LocalDist(xi, y[j])
         IN  Append(left, Min(prev[j - 1] + 2 * d, Min(left[j - 1] + d, prev[j] + d)))

\* row i of the cumulative cost matrix
RECURSIVE CostRow(_, _, _)
CostRow(x, y, i) ==
    IF i = 1 THEN FirstRow(x[1], y, Len(y))
    ELSE NextRow(CostRow(x, y, i - 1), x[i], y, Len(y))

\* alignment.distance; the package rejects an empty series
dtw(x, y) ==
    IF Len(x) = 0 \/ Len(y) = 0 THEN Raise
    ELSE Return(CostRow(x, y, Len(x))[Len(y)])

\* k = 0.000025 = 1 / k_inv
k_inv == 40000

\* exp() in fixed point with ExpScale parts per 1.0
ExpScale == 5 * 10000

ExpTerms == 3 * 4

\* exp(-r / k_inv) for 0 <= r < k_inv: the power series in Horner form,
\* 1 - x/n * (1 - x/(n+1) * ( ... ))
RECURSIVE ExpSeries(_, _)
ExpSeries(r, n) ==
    IF n > ExpTerms THEN ExpScale
    ELSE ExpScale - (r * ExpSeries(r, n + 1)) \div (k_inv * n)

\* exp(-d / k_inv); 18394 / ExpScale is exp(-1)
RECURSIVE ExpNeg(_)
ExpNeg(d) ==
    IF d >= k_inv THEN (ExpNeg(d - k_inv) * 18394) \div ExpScale
    ELSE ExpSeries(d, 1)

\* the decay with its sign lost: round(100 * np.exp(k * dtw_distance), 2)
similarity_score_grow(d) ==
    IF ExpNeg(d) = 0 THEN 10000 * ExpScale ELSE (10000 * ExpScale) \div ExpNeg(d)

\* round(100 * np.exp(-k * dtw_distance), 2), in hundredths
similarity_score(d) == (ExpNeg(d) * 10000 + ExpScale \div 2) \div ExpScale

singleVars == <<wave, energy, formants, pitch_contour, rhythm_features,
                phoneme_boundaries, katakana_score, result>>

\* the except clause, lines 50-54
DtwAbort(msg) ==
    /\ pc' = "done"
    /\ dtw_result' = Failure(msg)

\* lines 14-15
DtwLoad ==
    /\ pc = "dtw_load"
    /\ IF load_ok
       THEN pc' = "dtw_mfcc" /\ UNCHANGED dtw_result
       ELSE DtwAbort("load")
    /\ UNCHANGED <<load_ok, audio, mfcc_user_t, mfcc_ref_t, dtw_distance,
                   singleVars, callVars>>

\* lines 18-23
DtwMfcc ==
    /\ pc = "dtw_mfcc"
    /\ mfcc_user_t' = Transpose(Mfcc(audio.user))
    /\ mfcc_ref_t' = Transpose(Mfcc(audio.ref))
    /\ pc' = "dtw_align"
    /\ UNCHANGED <<load_ok, audio, dtw_distance, dtw_result, singleVars, callVars>>

\* lines 26-29
DtwAlign ==
    /\ pc = "dtw_align"
    /\ LET alignment == dtw(mfcc_user_t, mfcc_ref_t)
       IN  IF alignment.raised
           THEN DtwAbort("dtw") /\ UNCHANGED dtw_distance
           ELSE dtw_distance' = alignment.value /\ pc' = "dtw_score"
                /\ UNCHANGED dtw_result
    /\ UNCHANGED <<load_ok, audio, mfcc_user_t, mfcc_ref_t, singleVars, callVars>>

\* lines 37-48
DtwScore ==
    /\ pc = "dtw_score"
    /\ dtw_result' = [success |-> TRUE,
                      dtwDistance |-> dtw_distance,
                      dtwScore |-> similarity_score(dtw_distance),
                      userMfccShape |-> <<Len(mfcc_user_t), n_mfcc>>,
                      refMfccShape |-> <<Len(mfcc_ref_t), n_mfcc>>]
    /\ pc' = "done"
    /\ UNCHANGED <<load_ok, audio, mfcc_user_t, mfcc_ref_t, dtw_distance,
                   singleVars, callVars>>

InitDtw ==
    /\ pc = "dtw_load"
    /\ load_ok \in BOOLEAN
    /\ audio \in (IF load_ok THEN AudioSet ELSE {[user |-> <<>>, ref |-> <<>>]})
    /\ wave = NoWave
    /\ energy = 0
    /\ formants = None
    /\ pitch_contour = None
    /\ rhythm_features = None
    /\ phoneme_boundaries = None
    /\ katakana_score = None
    /\ result = None
    /\ mfcc_user_t = <<>>
    /\ mfcc_ref_t = <<>>
    /\ dtw_distance = 0
    /\ dtw_result = None
    /\ call = None
    /\ ret = 0

NextDtw ==
    \/ DtwLoad
    \/ DtwMfcc
    \/ DtwAlign
    \/ DtwScore

SpecDtw == InitDtw /\ [][NextDtw]_vars

-----------------------------------------------------------------------------
(* calculate_overall_score called directly on arbitrary summaries          *)

\* sub-scores in [0,1], with both sides of every threshold of the rule table
ScoreGrid ==
    { 0, Dec(3, 10), Dec(5, 10), Dec(5, 10) + 1, Dec(6, 10), Dec(6, 10) + 1,
      Dec(7, 10), Dec(7, 10) + 1, Dec(8, 10), Dec(8, 10) + 1, Unit }

EnergyGrid == { 0, Dec(5, 100), Dec(5, 100) + 1, Dec(1, 10), Dec(1, 10) + 1, Unit }

\* a summary dict with or without the key "score"
Summaries == { [name |-> "summary"] } \cup [name : {"summary"}, score : ScoreGrid]

\* a detector dict with or without the key "detected"
Detections == { [name |-> "detection"] } \cup [name : {"detection"}, detected : BOOLEAN]

CallSet ==
    [formants : {FormantDefault}, pitch : Summaries, rhythm : Summaries,
     phoneme : Summaries, katakana : Detections, energy : EnergyGrid]

CallScore ==
    /\ pc = "call"
    /\ ret' = calculate_overall_score(call.formants, call.pitch, call.rhythm,
                                      call.phoneme, call.katakana, call.energy)
    /\ pc' = "returned"
    /\ UNCHANGED <<load_ok, call, singleVars, dtwVars>>

InitScore ==
    /\ pc = "call"
    /\ call \in CallSet
    /\ ret = 0
    /\ load_ok = TRUE
    /\ wave = NoWave
    /\ audio = None
    /\ energy = 0
    /\ formants = None
    /\ pitch_contour = None
    /\ rhythm_features = None
    /\ phoneme_boundaries = None
    /\ katakana_score = None
    /\ result = None
    /\ mfcc_user_t = <<>>
    /\ mfcc_ref_t = <<>>
    /\ dtw_distance = 0
    /\ dtw_result = None

NextScore == CallScore

SpecScore == InitScore /\ [][NextScore]_vars

-----------------------------------------------------------------------------
(* Properties                                                              *)

Tags(q) == { q[i] : i \in DOMAIN q }

Succeeded == pc = "done" /\ load_ok

\* position of msg in the list q, 0 when absent
Pos(q, msg) == IF msg \in Tags(q) THEN CHOOSE i \in DOMAIN q : q[i] = msg ELSE 0

\* a before b whenever both are in q
Before(q, a, b) == (a \in Tags(q) /\ b \in Tags(q)) => Pos(q, a) < Pos(q, b)

\* C1: for every combination of sub-scores (present or missing), detector
\* flag and mean energy, calculate_overall_score returns a value in [0,100].
C1_OverallScoreInRange == pc = "returned" => (0 <= ret /\ ret <= 100)

\* all five adjustments at their largest: 75 + 40 = 115, returned as 100
C1_Witness ==
    /\ pc = "returned"
    /\ final_score(call.pitch, call.rhythm, call.phoneme, call.katakana, call.energy) = 115
    /\ ret = 100

\* C2: the detector's flag is set iff its confidence exceeds 0.5, and when
\* none of the three rules triggers on the waveform's summaries the
\* confidence is 0, the indicator list is empty and the flag is not set.
C2_DetectedIffConfident ==
    pc \in {"score", "done"} /\ load_ok =>
        /\ katakana_score.detected <=> katakana_score.confidence > Dec(5, 10)
        /\ katakana_score.indicators = <<>> =>
               katakana_score.confidence = 0 /\ ~katakana_score.detected
        /\ ( /\ ~wave.pitch.raises
             /\ ~wave.rhythm.raises
             /\ ~(extract_pitch_contour(wave).value.pitch_range < 50)
             /\ ~(extract_formants(wave).value.formant_stability > 100)
             /\ ~(analyze_rhythm(wave).value.rhythm_consistency < Dec(3, 10)) )
           => /\ katakana_score.indicators = <<>>
              /\ katakana_score.confidence = 0
              /\ ~katakana_score.detected

\* two rules triggered: confidence 2/3, flag set
C2_Witness ==
    /\ pc = "done"
    /\ load_ok
    /\ katakana_score.detected
    /\ Len(katakana_score.indicators) = 2

AssessmentKeys ==
    {"success", "overallScore", "formantAnalysis", "pitchAnalysis", "rhythmAnalysis",
     "phonemeAnalysis", "katakanaDetection", "energyLevel", "duration",
     "detailedFeedback"}

\* C3: once the waveform is loaded, whichever analysis steps raise, the
\* invocation returns success = true with every field of the assessment,
\* and each step that raised is reported by its fallback summary.
C3_AssessmentAlwaysProduced ==
    Succeeded =>
        /\ DOMAIN result = AssessmentKeys
        /\ result.success = TRUE
        /\ Len(result.detailedFeedback) >= 1
        /\ wave.pitch.raises => result.pitchAnalysis = PitchFallback
        /\ wave.rhythm.raises => result.rhythmAnalysis = RhythmFallback
        /\ wave.phoneme.raises => result.phonemeAnalysis = PhonemeFallback
        /\ (wave.pitch.raises \/ wave.rhythm.raises) =>
               result.katakanaDetection = KatakanaFallback

\* every analysis step that can raise has raised
C3_Witness ==
    /\ Succeeded
    /\ wave.formant.stft_raises
    /\ wave.pitch.raises
    /\ wave.rhythm.raises
    /\ wave.phoneme.raises
    /\ result.success = TRUE
    /\ result.katakanaDetection = KatakanaFallback

\* C4 as stated: the articulation sentence comes first, then pitch, then
\* rhythm, then the vowel sentence.
C4_FlagFirstOrder ==
    Succeeded =>
        LET q == result.detailedFeedback
        IN  /\ Before(q, MsgKatakana, MsgPitch)
            /\ Before(q, MsgKatakana, MsgRhythm)
            /\ Before(q, MsgKatakana, MsgVowel)
            /\ Before(q, MsgPitch, MsgRhythm)
            /\ Before(q, MsgPitch, MsgVowel)
            /\ Before(q, MsgRhythm, MsgVowel)

\* C4 amended: the sentences appear in the order vowel, pitch, rhythm,
\* articulation; the articulation sentence is last whenever it is present.
C4_FlagLastOrder ==
    Succeeded =>
        LET q == result.detailedFeedback
        IN  /\ Before(q, MsgVowel, MsgPitch)
            /\ Before(q, MsgVowel, MsgRhythm)
            /\ Before(q, MsgVowel, MsgKatakana)
            /\ Before(q, MsgPitch, MsgRhythm)
            /\ Before(q, MsgPitch, MsgKatakana)
            /\ Before(q, MsgRhythm, MsgKatakana)
            /\ MsgKatakana \in Tags(q) => q[Len(q)] = MsgKatakana

\* the articulation sentence together with the pitch and rhythm sentences
C4_Witness ==
    /\ Succeeded
    /\ result.detailedFeedback = <<MsgPitch, MsgRhythm, MsgKatakana>>

\* C5: identical non-empty cepstral sequences align at distance 0 and score
\* exactly 100; every alignment has distance >= 0 and a score in [0,100]
\* (dtwScore is kept in hundredths).
C5_IdenticalScoresFull ==
    (pc = "done" /\ dtw_result.success) =>
        /\ dtw_result.dtwDistance >= 0
        /\ 0 <= dtw_result.dtwScore /\ dtw_result.dtwScore <= 100 * 100
        /\ mfcc_user_t = mfcc_ref_t =>
               dtw_result.dtwDistance = 0 /\ dtw_result.dtwScore = 100 * 100

\* the same recording of two different frames on both sides
C5_Witness ==
    /\ pc = "done"
    /\ dtw_result.success
    /\ mfcc_user_t = mfcc_ref_t
    /\ Len(mfcc_user_t) >= 2
    /\ mfcc_user_t[1] # mfcc_user_t[2]
    /\ dtw_result.dtwScore = 100 * 100

InUnit(x) == 0 <= x /\ x <= Unit

\* C6: every sub-score handed to calculate_overall_score, computed or
\* substituted, lies in [0,1].
C6_SubScoresInUnit ==
    pc \in {"score", "done"} /\ load_ok =>
        /\ InUnit(formants.score)
        /\ InUnit(pitch_contour.score)
        /\ InUnit(rhythm_features.score)
        /\ InUnit(phoneme_boundaries.score)
        /\ InUnit(katakana_score.score)

\* 45 boundaries: 0.6 * 0.15 + 45 / 15 * 0.4 = 1.29 before the clamp
C6_Witness ==
    /\ pc = "score"
    /\ phoneme_boundaries.boundary_count = 45
    /\ calculate_boundary_score_unclamped(phoneme_boundaries.boundary_quality,
                                          phoneme_boundaries.boundary_count) > Unit
    /\ phoneme_boundaries.score = Unit
    /\ pitch_contour.score = Unit

Indicator(q, tag) == IF tag \in Tags(q) THEN 1 ELSE 0

\* C7 as stated: confidence = 0.3 [monotone pitch] + 0.3 [unstable formants]
\* + 0.4 [unnatural rhythm].
C7_WeightedConfidence ==
    pc \in {"score", "done"} /\ load_ok =>
        katakana_score.confidence =
            Dec(3, 10) * Indicator(katakana_score.indicators, "monotone_pitch")
            + Dec(3, 10) * Indicator(katakana_score.indicators, "unstable_formants")
            + Dec(4, 10) * Indicator(katakana_score.indicators, "unnatural_rhythm")

\* C7 amended: every triggered rule contributes one third, so that
\* confidence = ([monotone pitch] + [unstable formants] + [unnatural rhythm]) / 3.
C7_EqualThirdsConfidence ==
    pc \in {"score", "done"} /\ load_ok =>
        3 * katakana_score.confidence =
            Unit * ( Indicator(katakana_score.indicators, "monotone_pitch")
                     + Indicator(katakana_score.indicators, "unstable_formants")
                     + Indicator(katakana_score.indicators, "unnatural_rhythm") )

\* the rhythm rule alone has triggered
C7_Witness ==
    /\ pc = "done"
    /\ load_ok
    /\ katakana_score.indicators = <<"unnatural_rhythm">>
    /\ 3 * katakana_score.confidence = Unit

\* C8: extract_formants returns the neutral summary only when no frame has
\* two peaks; when some frame has, it returns the averaged f1_mean and
\* f2_mean and the spread of the retained peaks.
C8_FormantsReported ==
    pc \in {"pitch", "rhythm", "phoneme", "katakana", "score", "done"} /\ load_ok =>
        LET ff == wave.formant.formant_freqs
        IN  /\ formants = FormantDefault => (wave.formant.stft_raises \/ ff = <<>>)
            /\ (~wave.formant.stft_raises /\ ff # <<>>) =>
                   /\ formants.f1_mean = Mean(Column(ff, 1))
                   /\ formants.f2_mean = Mean(Column(ff, 2))
                   /\ formants.formant_stability = Std(Flatten(ff))

\* C9: in a successful assessment the detector's indicators agree with the
\* reported summaries: monotone pitch iff pitch_range < 50, unstable
\* formants iff formant_stability > 100, unnatural rhythm iff
\* rhythm_consistency < 0.3.
C9_DetectorMatchesReport ==
    Succeeded =>
        LET tags == Tags(result.katakanaDetection.indicators)
        IN  /\ "monotone_pitch" \in tags <=> result.pitchAnalysis.pitch_range < 50
            /\ "unstable_formants" \in tags <=>
                   result.formantAnalysis.formant_stability > 100
            /\ "unnatural_rhythm" \in tags <=>
                   result.rhythmAnalysis.rhythm_consistency < Dec(3, 10)

\* C10: every dimension the score penalises has its sentence in the
\* feedback, and the praise is emitted only when nothing was penalised,
\* as the only entry.
C10_FeedbackCoversPenalties ==
    Succeeded =>
        LET q == Tags(result.detailedFeedback)
        IN  /\ PitchAdjustment(result.pitchAnalysis) < 0 => MsgPitch \in q
            /\ RhythmAdjustment(result.rhythmAnalysis) < 0 => MsgRhythm \in q
            /\ KatakanaAdjustment(result.katakanaDetection) < 0 => MsgKatakana \in q
            /\ MsgPraise \in q =>
                   /\ PitchAdjustment(result.pitchAnalysis) >= 0
                   /\ RhythmAdjustment(result.rhythmAnalysis) >= 0
                   /\ KatakanaAdjustment(result.katakanaDetection) >= 0
                   /\ result.detailedFeedback = <<MsgPraise>>

====
